---- MODULE Spec2Model ----
(***************************************************************************)
(* GroupCache of bella/cayley.py: the 2n-letter alphabet with its inverse  *)
(* map, the closed relator list, the left-reduction test with its memo     *)
(* table, the local neighbour generators, the breadth-first and            *)
(* Monte-Carlo traversals of the Cayley graph, the memoized evaluation of  *)
(* a word to its matrix, and the isometric-circle samplers.                *)
(*                                                                         *)
(* A Python tuple (a word) is a TLA+ sequence of letters 0..2n-1; a Python *)
(* list indexed from 0 is a sequence indexed from 1, so gen_to_inv[x] of   *)
(* the source reads gen_to_inv[x + 1] here.  A 2x2 matrix [[a,b],[c,d]] is *)
(* the tuple <<a, b, c, d>>.                                               *)
(***************************************************************************)
EXTENDS Integers, Sequences, FiniteSets, TLC

\* ------------------------------------------------------------------ bounds
\* most generators handed to the constructor
MaxGens == 2
\* largest finite order p given for a generator (relator (index,)*p)
MaxOrder == 2
\* longest word handed to a word-level operation
MaxLen == 3
\* largest depth handed to a traversal
MaxDepth == 2
\* largest count of random walks handed to a Monte-Carlo traversal
MaxCount == 2

VARIABLES
    ctor,           \* the constructor's arguments [generators, relators]
    length,         \* self.length
    generators,     \* self.generators: the n matrices then their n inverses
    gen_to_inv,     \* self.gen_to_inv
    relators,       \* self.relators: the closed working relator list
    reduced_cache,  \* memo table of is_reduced_from_left (functools.cache)
    matrix_cache,   \* memo table of __getitem__ (functools.cache): word -> matrix
    word,           \* the word a word-level operation is applied to
    op,             \* the operation called ("none" before any call)
    flag,           \* its boolean argument: rtl, or yield_shorter
    arg,            \* the word the last call received
    ret,            \* what the last call returned (a generator: the list it yields)
    again,          \* whether the call repeats the previous one: inv_word applied to
                    \* what inv_word returned, is_reduced_from_left served from its memo
    exc,            \* the exception the operation raised ("none" if none)
    pc,             \* position of the traversal generator
    depth,          \* traversal argument depth
    count,          \* traversal argument count
    nn,             \* walk index of the Monte-Carlo loop
    n,              \* level / step index of the inner loop
    last_list,      \* breadth-first search: the previous level
    this_list,      \* breadth-first search: the level being built
    wi,             \* how many words of last_list have been taken
    items,          \* what the running local generator still has to yield
    walk,           \* Monte-Carlo: the local variable word of the walk
    item,           \* the word yielded last
    yielded,        \* how many words the traversal has yielded
    out,            \* the words a breadth-first traversal has yielded, in order
    record,         \* a sampler: the record emitted for the word consumed last,
                    \* <<>> when that word was skipped
    emitted         \* a sampler: how many records it has emitted

groupVars == <<ctor, length, generators, gen_to_inv, relators>>
callVars  == <<word, op, flag, arg, ret, again, exc>>
travVars  == <<pc, depth, count, nn, n, last_list, this_list, wi, items, walk,
               item, yielded, out>>
sampleVars == <<matrix_cache, record, emitted>>
vars      == <<groupVars, reduced_cache, sampleVars, callVars, travVars>>

\* ----------------------------------------------------------------- helpers
\* list(range(a, b))
Range(a, b) == [i \in 1..(IF b > a THEN b - a ELSE 0) |-> a + i - 1]

\* tuple(reversed(s))
Reversed(s) == [i \in 1..Len(s) |-> s[Len(s) + 1 - i]]

\* the slice s[:k]
SliceTo(s, k) == SubSeq(s, 1, IF k < Len(s) THEN k ELSE Len(s))

\* the slice s[-1]: the last element
Last(s) == s[Len(s)]

\* (x,) * k
Repeat(x, k) == [i \in 1..k |-> x]

\* the elements of a sequence
SeqRange(s) == {s[i] : i \in 1..Len(s)}

RECURSIVE Flatten(_)
\* list(itertools.chain.from_iterable(ss))
Flatten(ss) == IF ss = <<>> THEN <<>> ELSE Head(ss) \o Flatten(Tail(ss))

RECURSIVE Power(_, _)
Power(b, e) == IF e = 0 THEN 1 ELSE b * Power(b, e - 1)

\* all words of length exactly k over the letters 0..m-1
WordsOfLen(m, k) == [1..k -> 0..(m - 1)]

\* all words of length at most k over the letters 0..m-1
WordsUpTo(m, k) == UNION {WordsOfLen(m, j) : j \in 0..k}

\* ------------------------------------------------------- matrices (2 x 2)
simple_det(M) == M[1] * M[4] - M[2] * M[3]

\* 1/det * [[d, -b], [-c, a]]; the generators used here have determinant 1 or -1,
\* where 1/det = det
simple_inv(M) ==
    LET det == simple_det(M)
    IN  <<det * M[4], det * (0 - M[2]), det * (0 - M[3]), det * M[1]>>

\* mp.eye(2)
Eye == <<1, 0, 0, 1>>

\* A @ B
MatMul(A, B) ==
    <<A[1] * B[1] + A[2] * B[3], A[1] * B[2] + A[2] * B[4],
      A[3] * B[1] + A[4] * B[3], A[3] * B[2] + A[4] * B[4]>>

\* ------------------------------------------------- the constructor's inputs
\* The generator matrices of a Riley group with parabolic generators:
\* X = [[1,1],[0,1]] and Y = [[1,0],[mu,1]]; further generators are more Y's.
InputMatrix(i) == IF i = 1 THEN <<1, 1, 0, 1>> ELSE <<1, 0, i - 1, 1>>

\* RileyGroup.__init__: a generator of finite order p adds the relator (index,)*p;
\* order 0 stands for mp.inf (no relator).
RileyRelations(orders) ==
    Flatten([i \in 1..Len(orders) |->
                IF orders[i] # 0 THEN <<Repeat(i - 1, orders[i])>> ELSE <<>>])

CtorInputs ==
    UNION {{[generators |-> [i \in 1..k |-> InputMatrix(i)],
             relators   |-> RileyRelations(orders)] : orders \in [1..k -> 0..MaxOrder]} :
           k \in 0..MaxGens}

\* ----------------------------------------------------------- GroupCache
\* self.gen_to_inv as __init__ builds it from the generator count len
GenToInvOffByOne(len) == Range(len, 2 * len) \o Range(1, len + 1)
GenToInv(len) == Range(len, 2 * len) \o Range(0, len)

\* inv_word with a given inverse table
InvWordWith(g2i, w) == Reversed([i \in 1..Len(w) |-> g2i[w[i] + 1]])

inv_word(w) == InvWordWith(gen_to_inv, w)

\* self.relators as __init__ builds it
ClosedRelatorsOneWay(g2i, len, rels) ==
    rels \o [i \in 1..Len(rels) |-> InvWordWith(g2i, rels[i])]
         \o [i \in 1..len |-> <<i - 1, g2i[i]>>]
ClosedRelators(g2i, len, rels) ==
    rels \o [i \in 1..Len(rels) |-> InvWordWith(g2i, rels[i])]
         \o Flatten([i \in 1..len |-> << <<i - 1, g2i[i]>>, <<g2i[i], i - 1>> >>])

\* the state __init__ leaves behind
Constructed(c) ==
    LET given == Len(c.generators)
        len   == IF given = 0 THEN 1 ELSE given
        gens  == IF given = 0 THEN <<Eye>> ELSE c.generators
        g2i   == GenToInv(len)
    IN  /\ ctor = c
        /\ length = len
        /\ generators = gens \o [i \in 1..Len(gens) |-> simple_inv(gens[i])]
        /\ gen_to_inv = g2i
        /\ relators = ClosedRelators(g2i, len, c.relators)
        /\ reduced_cache = <<>>
        /\ matrix_cache = <<>>

\* the value is_reduced_from_left computes on a miss
is_reduced_whole_word(w) ==
    ~ \E i \in 1..Len(relators) : w = relators[i]
is_reduced_from_left_value(w) ==
    ~ \E i \in 1..Len(relators) : SliceTo(w, Len(relators[i])) = relators[i]

\* [(w,) for w in range(2*self.length)]
SingleLetterWords == [i \in 1..(2 * length) |-> <<i - 1>>]

\* free_cayley_graph_locally(word, rtl): the list of the words it yields
free_cayley_graph_locally_no_filter(w, rtl) ==
    IF rtl THEN [i \in 1..(2 * length) |-> <<i - 1>> \o w]
           ELSE [i \in 1..(2 * length) |-> w \o <<i - 1>>]
free_cayley_graph_locally_wrong_end(w, rtl) ==
    IF w = <<>>
    THEN SingleLetterWords
    ELSE LET labs == Range(0, 2 * length)
             left  == SelectSeq(labs, LAMBDA lab : lab # gen_to_inv[Last(w) + 1])
             right == SelectSeq(labs, LAMBDA lab : lab # gen_to_inv[w[1] + 1])
         IN  IF rtl THEN [i \in 1..Len(left)  |-> <<left[i]>> \o w]
                    ELSE [i \in 1..Len(right) |-> w \o <<right[i]>>]
free_cayley_graph_locally_same_letter(w, rtl) ==
    IF w = <<>>
    THEN SingleLetterWords
    ELSE LET labs == Range(0, 2 * length)
             left  == SelectSeq(labs, LAMBDA lab : lab # w[1])
             right == SelectSeq(labs, LAMBDA lab : lab # Last(w))
         IN  IF rtl THEN [i \in 1..Len(left)  |-> <<left[i]>> \o w]
                    ELSE [i \in 1..Len(right) |-> w \o <<right[i]>>]
free_cayley_graph_locally(w, rtl) ==
    IF w = <<>>
    THEN SingleLetterWords
    ELSE LET labs == Range(0, 2 * length)
             left  == SelectSeq(labs, LAMBDA lab : lab # gen_to_inv[w[1] + 1])
             right == SelectSeq(labs, LAMBDA lab : lab # gen_to_inv[Last(w) + 1])
         IN  IF rtl THEN [i \in 1..Len(left)  |-> <<left[i]>> \o w]
                    ELSE [i \in 1..Len(right) |-> w \o <<right[i]>>]

\* the names bound at module level in cayley.py (imports, functions, classes)
ModuleGlobals ==
    {"mp", "itertools", "functools", "random", "pd", "np", "warnings",
     "simple_det", "simple_inv", "simple_tr", "NonUnitDeterminantWarning",
     "GroupCache", "generators_from_circle_inversions",
     "BadlyConditionedPointsException", "line_in_circle_space",
     "circle_in_circle_space", "circle_space_to_circle_or_line",
     "action_on_circles", "normalise_mobius_pair", "mobius_fixed_points",
     "circle_through_points"}

\* cayley_graph_locally(word): the words it yields and the exception that ends it.
\* Line 171 calls the bare name is_reduced_from_left, which is looked up among
\* the module's globals, not on self: it is evaluated for the first letter tried.
cayley_graph_locally_filter_empty(w) ==
    LET keep == SelectSeq(SingleLetterWords, is_reduced_from_left_value)
    IN  IF w = <<>>
        THEN [items |-> keep, exc |-> "none"]
        ELSE [items |-> <<>>, exc |-> "NameError"]
cayley_graph_locally(w) ==
    IF w = <<>>
    THEN [items |-> SingleLetterWords, exc |-> "none"]
    ELSE IF 2 * length > 0 /\ "is_reduced_from_left" \notin ModuleGlobals
         THEN [items |-> <<>>, exc |-> "NameError"]
         ELSE LET lwords == [i \in 1..(2 * length) |-> <<i - 1>> \o w]
              IN  [items |-> SelectSeq(lwords, is_reduced_from_left_value),
                   exc   |-> "none"]

\* ------------------------------------------------- __getitem__ (evaluate)
\* the memo step of functools.cache around __getitem__: nothing is ever evicted
MatrixMemoStoreEvicting(cache, w, M) == (w :> M)
MatrixMemoStore(cache, w, M) == (w :> M) @@ cache

RECURSIVE Evaluate(_, _)
\* self[word] started with the memo table cache: the matrix returned and the
\* memo table left behind.  The recursive call self[word[1:]] goes through the
\* memo table too.
Evaluate(cache, w) ==
    IF w \in DOMAIN cache
    THEN [val |-> cache[w], cache |-> cache]
    ELSE IF w = <<>>
         THEN [val |-> <<1, 0, 0, 1>>, cache |-> MatrixMemoStore(cache, w, <<1, 0, 0, 1>>)]
         ELSE LET rest == Evaluate(cache, Tail(w))
                  M    == MatMul(generators[w[1] + 1], rest.val)
              IN  [val |-> M, cache |-> MatrixMemoStore(rest.cache, w, M)]

\* --------------------------------------------------------- isometric circles
\* mp.inf; a number is the fraction num/den, and 1/0 is infinity
Infinite == [num |-> 1, den |-> 0]

\* mp.fabs
Fabs(x) == IF x < 0 THEN 0 - x ELSE x

\* isometric_circle(word) for the matrix m = self[word]: (centre, radius)
isometric_circle(m) ==
    IF m[3] = 0
    THEN [centre |-> Infinite, radius |-> Infinite]
    ELSE [centre |-> [num |-> 0 - m[4], den |-> m[3]],
          radius |-> [num |-> 1, den |-> Fabs(m[3])]]

\* the samplers' test `if centre == mp.inf: continue`
EmitsRecordAlways(circle) == TRUE
EmitsRecord(circle) == circle.centre # Infinite

\* the record [float(centre.real), float(centre.imag), float(radius), w[0]];
\* the entries of the matrices are real, so the imaginary part is 0
CircleRecord(circle, w) ==
    <<circle.centre, [num |-> 0, den |-> 1], circle.radius, w[1]>>

Samplers == {"coloured_isometric_circles_mc", "coloured_isometric_circles_bfs"}

\* What the consumer of the traversal does with the word w it is handed: the
\* body of _internal_generator in the samplers, nothing in a bare traversal.
\* The breadth-first sampler keeps the memo table of self[w]; the Monte-Carlo
\* sampler reads the matrix only: the table changes no value, and keeping it
\* would multiply the states by the history of the walks.
Consumed(w) ==
    IF op \in Samplers
    THEN LET r      == Evaluate(matrix_cache, w)
             circle == isometric_circle(r.val)
         IN  /\ matrix_cache' = IF op = "coloured_isometric_circles_bfs"
                                THEN r.cache ELSE matrix_cache
             /\ IF EmitsRecord(circle)
                THEN /\ record' = CircleRecord(circle, w)
                     /\ emitted' = emitted + 1
                ELSE /\ record' = <<>>
                     /\ UNCHANGED emitted
    ELSE UNCHANGED sampleVars

\* ------------------------------------------------------------- idle parts
TravIdle ==
    /\ pc = "idle" /\ depth = 0 /\ count = 0 /\ nn = 0 /\ n = 0
    /\ last_list = <<>> /\ this_list = <<>> /\ wi = 0 /\ items = <<>>
    /\ walk = <<>> /\ item = <<>> /\ yielded = 0 /\ out = <<>>
    /\ record = <<>> /\ emitted = 0

CallIdle ==
    /\ op = "none" /\ flag = FALSE /\ arg = <<>> /\ ret = <<>>
    /\ again = FALSE /\ exc = "none"

\* ------------------------------------------- word-level operations (Spec)
Init ==
    /\ \E c \in CtorInputs : Constructed(c)
    /\ word \in WordsUpTo(2 * length, MaxLen)
    /\ CallIdle
    /\ TravIdle

\* inv_word applied to the word, or to what inv_word returned last
CallInvWord ==
    /\ op = "none" \/ (op = "inv_word" /\ ~ again)
    /\ LET input == IF op = "none" THEN word ELSE ret
       IN  /\ arg' = input
           /\ ret' = inv_word(input)
    /\ op' = "inv_word"
    /\ again' = (op = "inv_word")
    /\ UNCHANGED <<groupVars, sampleVars, reduced_cache, word, flag, exc, travVars>>

\* the memo step of functools.cache around is_reduced_from_left
MemoStore(w) == reduced_cache' = (w :> is_reduced_from_left_value(w)) @@ reduced_cache

\* is_reduced_from_left(word), first and repeated
CallIsReduced ==
    /\ op \in {"none", "is_reduced_from_left"}
    /\ arg' = word
    /\ IF word \in DOMAIN reduced_cache
       THEN /\ ret' = reduced_cache[word]
            /\ again' = TRUE
            /\ UNCHANGED reduced_cache
       ELSE /\ ret' = is_reduced_from_left_value(word)
            /\ again' = FALSE
            /\ MemoStore(word)
    /\ op' = "is_reduced_from_left"
    /\ UNCHANGED <<groupVars, sampleVars, word, flag, exc, travVars>>

\* list(free_cayley_graph_locally(word, rtl))
CallFreeLocally ==
    /\ op = "none"
    /\ \E rtl \in BOOLEAN :
        /\ flag' = rtl
        /\ ret' = free_cayley_graph_locally(word, rtl)
    /\ arg' = word
    /\ op' = "free_cayley_graph_locally"
    /\ UNCHANGED <<groupVars, sampleVars, reduced_cache, word, again, exc, travVars>>

\* list(cayley_graph_locally(word))
CallLocally ==
    /\ op = "none"
    /\ LET r == cayley_graph_locally(word)
       IN  /\ ret' = r.items
           /\ exc' = r.exc
    /\ arg' = word
    /\ op' = "cayley_graph_locally"
    /\ UNCHANGED <<groupVars, sampleVars, reduced_cache, word, flag, again, travVars>>

Next ==
    \/ CallInvWord
    \/ CallIsReduced
    \/ CallFreeLocally
    \/ CallLocally

Spec == Init /\ [][Next]_vars

\* ------------------------------------------- evaluation of words (SpecEval)
\* a group without relators and a word; the calls evaluate prefixes of the word
InitEval ==
    /\ \E c \in {i \in CtorInputs : i.relators = <<>>} : Constructed(c)
    /\ word \in WordsUpTo(2 * length, MaxLen)
    /\ CallIdle
    /\ TravIdle

\* self[w] for a prefix w of the word, in any order and any number of times
CallEvaluate ==
    /\ op \in {"none", "evaluate"}
    /\ \E k \in 0..Len(word) :
        LET w == SubSeq(word, 1, k)
            r == Evaluate(matrix_cache, w)
        IN  /\ arg' = w
            /\ ret' = r.val
            /\ again' = (w \in DOMAIN matrix_cache)
            /\ matrix_cache' = r.cache
    /\ op' = "evaluate"
    /\ UNCHANGED <<groupVars, reduced_cache, record, emitted, word, flag, exc,
                   travVars>>

NextEval == CallEvaluate

SpecEval == InitEval /\ [][NextEval]_vars

\* ------------------------------------------------------------ random walks
\* free_random_walk_locally(word, rtl): the words random.choice can return
free_random_walk_locally(w, rtl) ==
    IF w = <<>>
    THEN SingleLetterWords
    ELSE LET labs == Range(0, 2 * length)
             left  == SelectSeq(labs, LAMBDA x : x # gen_to_inv[w[1] + 1])
             right == SelectSeq(labs, LAMBDA x : x # gen_to_inv[Last(w) + 1])
         IN  IF rtl THEN [i \in 1..Len(left)  |-> <<left[i]>> \o w]
                    ELSE [i \in 1..Len(right) |-> w \o <<right[i]>>]

\* random_walk_locally(word): the list random.choice draws from.  The memo table
\* of self.is_reduced_from_left changes no answer, so the walk reads the value.
random_walk_locally(w) ==
    IF w = <<>>
    THEN SingleLetterWords
    ELSE LET lwords == [i \in 1..(2 * length) |-> <<i - 1>> \o w]
         IN  SelectSeq(lwords, is_reduced_from_left_value)

\* the memo table of is_reduced_from_left once random_walk_locally(word) has
\* asked it about (x,) + word for every letter x
MemoAfterWalk(w) ==
    IF w = <<>>
    THEN reduced_cache
    ELSE LET asked == {<<x>> \o w : x \in 0..(2 * length - 1)}
         IN  [lw \in DOMAIN reduced_cache \cup asked |->
                IF lw \in DOMAIN reduced_cache THEN reduced_cache[lw]
                ELSE is_reduced_from_left_value(lw)]

\* ------------------------------------- the neighbour operations (SpecWalk)
\* free_random_walk_locally(word, rtl): one word drawn by random.choice
CallFreeRandomWalk ==
    /\ op = "none"
    /\ \E rtl \in BOOLEAN :
        /\ flag' = rtl
        /\ \E i \in 1..Len(free_random_walk_locally(word, rtl)) :
             ret' = free_random_walk_locally(word, rtl)[i]
    /\ arg' = word
    /\ op' = "free_random_walk_locally"
    /\ UNCHANGED <<groupVars, sampleVars, reduced_cache, word, again, exc, travVars>>

\* random_walk_locally(word): one word drawn by random.choice(words)
CallRandomWalk ==
    /\ op = "none"
    /\ \E i \in 1..Len(random_walk_locally(word)) :
         ret' = random_walk_locally(word)[i]
    /\ reduced_cache' = MemoAfterWalk(word)
    /\ arg' = word
    /\ op' = "random_walk_locally"
    /\ UNCHANGED <<groupVars, sampleVars, word, flag, again, exc, travVars>>

\* random_walk_locally(word) when words is empty: random.choice raises IndexError
CallRandomWalkRaise ==
    /\ op = "none"
    /\ random_walk_locally(word) = <<>>
    /\ reduced_cache' = MemoAfterWalk(word)
    /\ arg' = word
    /\ exc' = "IndexError"
    /\ op' = "random_walk_locally"
    /\ UNCHANGED <<groupVars, sampleVars, word, flag, ret, again, travVars>>

NextWalk ==
    \/ CallFreeRandomWalk
    \/ CallRandomWalk
    \/ CallRandomWalkRaise
    \/ CallFreeLocally
    \/ CallLocally

SpecWalk == Init /\ [][NextWalk]_vars

\* the test of line 239, with n the loop variable of range(depth)
YieldsWord(yield_shorter, step, d) == yield_shorter \/ step = d

\* --------------------------------------------------- traversals: the start
InitTraversal ==
    /\ \E c \in CtorInputs : Constructed(c)
    /\ word = <<>>
    /\ CallIdle
    /\ TravIdle

\* the generator object is created; its body has not run yet
Started(name, d, c, f, at) ==
    /\ pc = "idle"
    /\ op' = name
    /\ depth' = d
    /\ count' = c
    /\ flag' = f
    /\ pc' = at
    /\ UNCHANGED <<groupVars, sampleVars, reduced_cache, word, arg, ret, again, exc,
                   nn, n, this_list, wi, items, walk, item, yielded, out>>

\* ----------------------------------------------- breadth-first (SpecBfs)
StartFreeBfs ==
    \E d \in 0..MaxDepth :
        /\ Started("free_cayley_graph_bfs", d, 0, TRUE, "level")
        /\ last_list' = << <<>> >>

StartBfs ==
    \E d \in 0..MaxDepth :
        /\ Started("cayley_graph_bfs", d, 0, TRUE, "level")
        /\ last_list' = << <<>> >>

\* the local generator the breadth-first search runs on a word of last_list
LocalNeighbours(w) ==
    IF op = "free_cayley_graph_bfs"
    THEN [items |-> free_cayley_graph_locally(w, TRUE), exc |-> "none"]
    ELSE cayley_graph_locally(w)

\* for n in range(depth): this_list = []
BfsLevel ==
    /\ pc = "level"
    /\ IF n < depth
       THEN /\ this_list' = <<>>
            /\ wi' = 0
            /\ pc' = "word"
       ELSE /\ pc' = "done"
            /\ UNCHANGED <<this_list, wi>>
    /\ UNCHANGED <<groupVars, sampleVars, reduced_cache, callVars, depth, count, nn, n,
                   last_list, items, walk, item, yielded, out>>

\* for w in last_list: ...; after the last word, last_list = this_list
BfsWord ==
    /\ pc = "word"
    /\ IF wi < Len(last_list)
       THEN /\ wi' = wi + 1
            /\ items' = LocalNeighbours(last_list[wi + 1]).items
            /\ pc' = "item"
            /\ UNCHANGED <<n, last_list>>
       ELSE /\ last_list' = this_list
            /\ n' = n + 1
            /\ pc' = "level"
            /\ UNCHANGED <<wi, items>>
    /\ UNCHANGED <<groupVars, sampleVars, reduced_cache, callVars, depth, count, nn,
                   this_list, walk, item, yielded, out>>

\* for item in ...locally(w): yield item; this_list.append(item)
BfsItem ==
    /\ pc = "item"
    /\ items # <<>>
    /\ item' = Head(items)
    /\ yielded' = yielded + 1
    /\ out' = Append(out, Head(items))
    /\ this_list' = Append(this_list, Head(items))
    /\ items' = Tail(items)
    /\ Consumed(Head(items))
    /\ UNCHANGED <<groupVars, reduced_cache, callVars, pc, depth, count, nn, n,
                   last_list, wi, walk>>

\* the local generator is exhausted
BfsItemsEnd ==
    /\ pc = "item"
    /\ items = <<>>
    /\ LocalNeighbours(last_list[wi]).exc = "none"
    /\ pc' = "word"
    /\ UNCHANGED <<groupVars, sampleVars, reduced_cache, callVars, depth, count, nn, n,
                   last_list, this_list, wi, items, walk, item, yielded, out>>

\* the local generator raises; the exception leaves the traversal
BfsRaise ==
    /\ pc = "item"
    /\ items = <<>>
    /\ LocalNeighbours(last_list[wi]).exc # "none"
    /\ exc' = LocalNeighbours(last_list[wi]).exc
    /\ pc' = "raised"
    /\ UNCHANGED <<groupVars, sampleVars, reduced_cache, word, op, flag, arg, ret, again,
                   depth, count, nn, n, last_list, this_list, wi, items, walk,
                   item, yielded, out>>

NextBfs ==
    \/ StartFreeBfs
    \/ StartBfs
    \/ BfsLevel
    \/ BfsWord
    \/ BfsItem
    \/ BfsItemsEnd
    \/ BfsRaise

SpecBfs == InitTraversal /\ [][NextBfs]_vars

\* ------------------------------------------------- Monte-Carlo (SpecMc)
StartFreeMc ==
    \E d \in 0..MaxDepth, c \in 0..MaxCount, rtl \in BOOLEAN :
        /\ Started("free_cayley_graph_mc", d, c, rtl, "walk")
        /\ UNCHANGED last_list

StartMc ==
    \E d \in 0..MaxDepth, c \in 0..MaxCount, yield_shorter \in BOOLEAN :
        /\ Started("cayley_graph_mc", d, c, yield_shorter, "walk")
        /\ UNCHANGED last_list

\* for nn in range(count): word = ()
McWalk ==
    /\ pc = "walk"
    /\ IF nn < count
       THEN /\ walk' = <<>>
            /\ n' = 0
            /\ pc' = "step"
       ELSE /\ pc' = "done"
            /\ UNCHANGED <<walk, n>>
    /\ UNCHANGED <<groupVars, sampleVars, reduced_cache, callVars, depth, count, nn,
                   last_list, this_list, wi, items, item, yielded, out>>

\* the list the step of the walk draws its next word from
StepChoices ==
    IF op = "free_cayley_graph_mc"
    THEN free_random_walk_locally(walk, flag)
    ELSE random_walk_locally(walk)

\* whether the step yields the word it drew
StepYieldsFinalOnly == n + 1 = depth
StepYields ==
    IF op = "free_cayley_graph_mc" THEN TRUE ELSE YieldsWord(flag, n, depth)

\* for n in range(depth): word = ...random_walk_locally(word); yield word
McStep ==
    /\ pc = "step"
    /\ n < depth
    /\ \E i \in 1..Len(StepChoices) :
        /\ walk' = StepChoices[i]
        /\ IF StepYields
           THEN /\ item' = StepChoices[i]
                /\ yielded' = yielded + 1
                /\ Consumed(StepChoices[i])
           ELSE UNCHANGED <<item, yielded, sampleVars>>
    /\ n' = n + 1
    /\ UNCHANGED <<groupVars, reduced_cache, callVars, pc, depth, count, nn,
                   last_list, this_list, wi, items, out>>

\* random.choice of an empty list raises IndexError
McRaise ==
    /\ pc = "step"
    /\ n < depth
    /\ StepChoices = <<>>
    /\ exc' = "IndexError"
    /\ pc' = "raised"
    /\ UNCHANGED <<groupVars, sampleVars, reduced_cache, word, op, flag, arg, ret, again,
                   depth, count, nn, n, last_list, this_list, wi, items, walk,
                   item, yielded, out>>

\* range(depth) is exhausted: the next walk
McWalkEnd ==
    /\ pc = "step"
    /\ n = depth
    /\ nn' = nn + 1
    /\ pc' = "walk"
    /\ UNCHANGED <<groupVars, sampleVars, reduced_cache, callVars, depth, count, n,
                   last_list, this_list, wi, items, walk, item, yielded, out>>

NextMc ==
    \/ StartFreeMc
    \/ StartMc
    \/ McWalk
    \/ McStep
    \/ McRaise
    \/ McWalkEnd

SpecMc == InitTraversal /\ [][NextMc]_vars

\* ------------------------------------- isometric-circle samplers (SpecSample)
\* coloured_isometric_circles_mc(depth, count) consumes cayley_graph_mc(depth, count)
StartCirclesMc ==
    \E d \in 0..MaxDepth, c \in 0..MaxCount :
        /\ Started("coloured_isometric_circles_mc", d, c, TRUE, "walk")
        /\ UNCHANGED last_list

\* coloured_isometric_circles_bfs(depth) consumes cayley_graph_bfs(depth)
StartCirclesBfs ==
    \E d \in 0..MaxDepth :
        /\ Started("coloured_isometric_circles_bfs", d, 0, TRUE, "level")
        /\ last_list' = << <<>> >>

NextSample ==
    \/ StartCirclesMc
    \/ StartCirclesBfs
    \/ McWalk
    \/ McStep
    \/ McRaise
    \/ McWalkEnd
    \/ BfsLevel
    \/ BfsWord
    \/ BfsItem
    \/ BfsItemsEnd
    \/ BfsRaise

SpecSample == InitTraversal /\ [][NextSample]_vars

\* ------------------------------------------------------------- properties
\* the inverse letter as documented: g + n for a primary letter, g - n otherwise
InverseLetter(x) == IF x < length THEN x + length ELSE x - length

\* the inverse word as documented: reversed, every letter inverted
InverseWord(w) == [i \in 1..Len(w) |-> InverseLetter(w[Len(w) + 1 - i])]

\* r is a prefix of w
IsPrefix(r, w) == Len(r) <= Len(w) /\ \A i \in 1..Len(r) : r[i] = w[i]

\* user relators, their inverses, and the backtrack pair of every letter
WorkingRelatorSet ==
    SeqRange(ctor.relators)
        \cup {InverseWord(r) : r \in SeqRange(ctor.relators)}
        \cup {<<g, InverseLetter(g)>> : g \in 0..(2 * length - 1)}

\* how many of the words of s have length k
CountOfLen(s, k) == Cardinality({i \in 1..Len(s) : Len(s[i]) = k})

\* C1: a finished free_cayley_graph_bfs(depth) has yielded exactly
\* 2n * (2n-1)^(k-1) words of length k for each k in 1..depth, no word of
\* another length, and it does not raise.
FreeBfsGrowth ==
    op = "free_cayley_graph_bfs" =>
        /\ pc # "raised"
        /\ pc = "done" =>
            /\ \A k \in 1..depth :
                 CountOfLen(out, k) = 2 * length * Power(2 * length - 1, k - 1)
            /\ \A i \in 1..Len(out) : Len(out[i]) \in 1..depth
            /\ yielded = Len(out)

FreeBfsGrowthWitness ==
    /\ op = "free_cayley_graph_bfs" /\ pc = "done"
    /\ length = 2 /\ depth = 2
    /\ CountOfLen(out, 1) = 4 /\ CountOfLen(out, 2) = 12

\* C2: for a nonempty word w, free_cayley_graph_locally(w) with rtl=True yields
\* exactly 2n-1 pairwise distinct words, each of length len(w)+1 with w as its
\* suffix, none of them (inv(w[0]),) + w.
FreeLocallyNeighbours ==
    (op = "free_cayley_graph_locally" /\ flag /\ arg # <<>>) =>
        /\ Len(ret) = 2 * length - 1
        /\ \A i, j \in 1..Len(ret) : i # j => ret[i] # ret[j]
        /\ \A i \in 1..Len(ret) :
             /\ Len(ret[i]) = Len(arg) + 1
             /\ Tail(ret[i]) = arg
             /\ ret[i] # <<InverseLetter(arg[1])>> \o arg

FreeLocallyNeighboursWitness ==
    /\ op = "free_cayley_graph_locally" /\ flag
    /\ length = 2 /\ Len(arg) = 2 /\ arg[1] # arg[2]
    /\ Len(ret) = 3

\* C3: cayley_graph_locally(w) completes for every word w, and what it yields
\* is a subset of what free_cayley_graph_locally(w) yields.
LocallySubsetOfFree ==
    op = "cayley_graph_locally" =>
        /\ exc = "none"
        /\ SeqRange(ret) \subseteq SeqRange(free_cayley_graph_locally(arg, TRUE))

\* C4: free_cayley_graph_mc(depth, count, rtl) yields exactly count * depth
\* words, each of length in 1..depth, and does not raise.
FreeMcYieldCount ==
    op = "free_cayley_graph_mc" =>
        /\ pc # "raised"
        /\ yielded > 0 => Len(item) \in 1..depth
        /\ yielded <= count * depth
        /\ pc = "done" => yielded = count * depth

FreeMcYieldCountWitness ==
    /\ op = "free_cayley_graph_mc" /\ pc = "done" /\ ~ flag
    /\ depth = 2 /\ count = 2 /\ length = 2
    /\ yielded = 4 /\ Len(item) = 2

\* C5: for depth >= 1, a finished cayley_graph_mc(depth, count,
\* yield_shorter=False) has yielded exactly count words, the final word of each
\* walk, of length depth.
McFinalWordsOnly ==
    (op = "cayley_graph_mc" /\ ~ flag /\ depth >= 1 /\ pc = "done") =>
        /\ yielded = count
        /\ count > 0 => Len(item) = depth

\* C6: cayley_graph_mc(depth, count) with yield_shorter=True runs every walk to
\* length depth and yields count * depth words; no walk fails for want of a
\* reduced neighbour.
McRunsEveryWalk ==
    (op = "cayley_graph_mc" /\ flag) =>
        /\ pc # "raised"
        /\ pc = "done" => yielded = count * depth

InvWordInvolution ==
    (op = "inv_word" /\ again) => ret = word

InvWordInvolutionWitness ==
    /\ op = "inv_word" /\ again
    /\ ctor.generators = <<>>
    /\ Len(word) = 3 /\ word[1] # word[3]
    /\ ret = word /\ arg # word

MatrixCacheAppendOnly ==
    /\ [](op = "evaluate" =>
            /\ arg \in DOMAIN matrix_cache
            /\ ret = matrix_cache[arg]
            /\ IF arg = <<>>
               THEN ret = <<1, 0, 0, 1>>
               ELSE /\ Tail(arg) \in DOMAIN matrix_cache
                    /\ ret = MatMul(generators[arg[1] + 1], matrix_cache[Tail(arg)]))
    /\ [][\A w \in DOMAIN matrix_cache :
            /\ w \in DOMAIN matrix_cache'
            /\ matrix_cache'[w] = matrix_cache[w]]_vars

MatrixCacheAppendOnlyWitness ==
    /\ op = "evaluate" /\ again
    /\ length = 2 /\ Len(word) = 3 /\ Len(arg) = 2
    /\ word \in DOMAIN matrix_cache
    /\ ret[3] # 0 /\ ret[2] # 0

RECURSIVE ProductUpTo(_, _)
\* the product of the first k generator matrices of w, multiplied left to right
ProductUpTo(w, k) ==
    IF k = 0 THEN <<1, 0, 0, 1>>
    ELSE MatMul(ProductUpTo(w, k - 1), generators[w[k] + 1])

NeighbourOperationsAgree ==
    /\ op = "free_random_walk_locally" =>
         ret \in SeqRange(free_cayley_graph_locally(arg, flag))
    /\ op = "free_cayley_graph_locally" =>
         SeqRange(ret) = SeqRange(free_random_walk_locally(arg, flag))
    /\ (op = "random_walk_locally" /\ exc = "none") =>
         ret \in SeqRange(cayley_graph_locally(arg).items)
    /\ op = "cayley_graph_locally" =>
         SeqRange(ret) = SeqRange(random_walk_locally(arg))

\* the words one letter longer than w that start with no working relator
ReducedNeighbours(w) ==
    IF w = <<>>
    THEN {<<x>> : x \in 0..(2 * length - 1)}
    ELSE {lw \in {<<x>> \o w : x \in 0..(2 * length - 1)} :
            ~ \E r \in WorkingRelatorSet : IsPrefix(r, lw)}

RECURSIVE ReducedLevel(_)
\* level k of the reduced breadth-first search, level 0 being the empty word
ReducedLevel(k) ==
    IF k = 0 THEN {<<>>}
    ELSE UNION {ReducedNeighbours(w) : w \in ReducedLevel(k - 1)}

\* C14: cayley_graph_bfs(depth) runs to completion for every relator set and
\* depth, yields level after level the words got by expanding the previous
\* level through the reduced neighbours, and yields them in non-decreasing
\* length order.
ReducedBfsLevelOrder ==
    op = "cayley_graph_bfs" =>
        /\ pc # "raised"
        /\ \A i \in 1..(Len(out) - 1) : Len(out[i]) <= Len(out[i + 1])
        /\ pc = "done" =>
             SeqRange(out) = UNION {ReducedLevel(k) : k \in 1..depth}

\* no adjacent pair (x, inv(x))
FreelyReduced(w) ==
    \A i \in 1..(Len(w) - 1) : w[i + 1] # InverseLetter(w[i])

\* C15: free_cayley_graph_bfs(depth) yields exactly the freely reduced words of
\* length 1..depth, each once: no word twice, none with an adjacent (x, inv(x)).
FreeBfsReducedWordsOnce ==
    op = "free_cayley_graph_bfs" =>
        /\ \A i \in 1..Len(out) : FreelyReduced(out[i])
        /\ \A i \in 1..(Len(out) - 1) : out[i] # out[Len(out)]
        /\ pc = "done" =>
             SeqRange(out) =
                {w \in UNION {WordsOfLen(2 * length, k) : k \in 1..depth} :
                    FreelyReduced(w)}

FreeBfsReducedWordsOnceWitness ==
    /\ op = "free_cayley_graph_bfs" /\ pc = "done"
    /\ length = 2 /\ depth = 2
    /\ Len(out) = 16
    /\ <<0, 1>> \in SeqRange(out) /\ <<2, 0>> \notin SeqRange(out)

====
